---- MODULE Spec2Model ----
(***************************************************************************)
(* The SQLCluster coordinator of modules/sql/src/cluster.ts: the split of  *)
(* file paths over the workers, the module-wide context token counter, the *)
(* fan-out of table operations and the streaming merge loop of sql().      *)
(***************************************************************************)
EXTENDS Integers, Sequences, FiniteSets, TLC

\* ------------------------------------------------------------------ bounds
MaxWorkers == 3   \* workers of a cluster that runs one operation
MaxFanout == 2    \* workers of a cluster that runs MaxOps operations
MaxOps == 2
MaxBatches == 2
MaxPaths == 7
MaxBaseId == 1    \* the largest id given to a cluster
MaxFields == 3    \* fields of an Arrow table

WorkerIds == 0..(MaxBaseId + MaxWorkers - 1)
NoToken == 0 - 1
NoWorker == 0 - 1

\* ------------------------------------------------------------------ helpers
Range(s) == {s[i] : i \in 1..Len(s)}

Reverse(s) == [i \in 1..Len(s) |-> s[Len(s) + 1 - i]]

\* Math.ceil(a / b) for a >= 0, b >= 1
Ceil(a, b) == (a + b - 1) \div b

IndexOf(s, x) == CHOOSE i \in 1..Len(s) : s[i] = x

\* ------------------------------------------------------------------ state
VARIABLES
  workers,    \* this._workers: worker ids, highest id first
  ctxToken,   \* the module-level token counter
  killed,     \* ids of the workers whose kill() has been called
  ops,        \* the operations issued so far, in call order
  tokenLog,   \* the tokens handed to the channel/workers, in the order taken
  killCalls,  \* the number of times each worker's kill() has been called
  localId,    \* the id of this._worker, the in-process worker
  registered, \* the workers on which the table is registered
  call        \* a call of a DataFrame or Join function: its name, arguments, result

vars == <<workers, ctxToken, killed, ops, tokenLog, killCalls, localId, registered, call>>

\* no DataFrame or Join function is being called
NoCall == [fn |-> "none", args |-> <<>>, result |-> <<>>, returned |-> FALSE]

\* ------------------------------------------------------------------ plans
EmptySentinel == "LogicalValues(tuples=[[]])"

Plans == { <<"LogicalProject", "BindableTableScan">>,
           <<"LogicalProject", "LogicalValues(tuples=[[]])">> }

\* faulty variant: the early return is never taken
NeverEmpty(algebra) == FALSE

\* algebra.includes('LogicalValues(tuples=[[]])')
IsStaticallyEmpty(algebra) == \E i \in 1..Len(algebra) : algebra[i] = EmptySentinel

\* ------------------------------------------------------------------ the file split
\* filePath.splice(0, n): the removed front and what is left
SpliceFront(filePath, n) ==
  SubSeq(filePath, 1, IF n < Len(filePath) THEN n ELSE Len(filePath))

SpliceRest(filePath, n) == SubSeq(filePath, n + 1, Len(filePath))

\* faulty variants of the split: Math.floor for Math.ceil, a chunk size computed
\* once before the loop, and slice (which leaves the paths in the list) for splice
RECURSIVE ChunkLoopFloor(_, _)
ChunkLoopFloor(filePath, i) ==
  IF i <= 0 THEN <<>>
  ELSE LET n == Len(filePath) \div i
       IN  <<SpliceFront(filePath, n)>> \o ChunkLoopFloor(SpliceRest(filePath, n), i - 1)

ChunkedPathsFloor(filePath, numWorkers) == ChunkLoopFloor(filePath, numWorkers)

RECURSIVE ChunkLoopFixed(_, _, _)
ChunkLoopFixed(filePath, i, size) ==
  IF i <= 0 THEN <<>>
  ELSE <<SpliceFront(filePath, size)>>
         \o ChunkLoopFixed(SpliceRest(filePath, size), i - 1, size)

ChunkedPathsFixedSize(filePath, numWorkers) ==
  IF numWorkers = 0 THEN <<>>
  ELSE ChunkLoopFixed(filePath, numWorkers, Ceil(Len(filePath), numWorkers))

RECURSIVE ChunkLoopSlice(_, _)
ChunkLoopSlice(filePath, i) ==
  IF i <= 0 THEN <<>>
  ELSE LET n == Ceil(Len(filePath), i)
       IN  <<SpliceFront(filePath, n)>> \o ChunkLoopSlice(filePath, i - 1)

ChunkedPathsSlice(filePath, numWorkers) == ChunkLoopSlice(filePath, numWorkers)

\* for (let i = workers.length; i > 0; i--)
\*   chunkedPaths.push(filePath.splice(0, Math.ceil(filePath.length / i)))
RECURSIVE ChunkLoop(_, _)
ChunkLoop(filePath, i) ==
  IF i <= 0 THEN <<>>
  ELSE LET n == Ceil(Len(filePath), i)
       IN  <<SpliceFront(filePath, n)>> \o ChunkLoop(SpliceRest(filePath, n), i - 1)

ChunkedPaths(filePath, numWorkers) == ChunkLoop(filePath, numWorkers)

\* faulty variant: the loop takes its chunks from a copy of the array
SplicedAwayFromCopy(filePath, i) == filePath

\* what the loop leaves in the array it was given: splice removes in place
RECURSIVE SplicedAway(_, _)
SplicedAway(filePath, i) ==
  IF i <= 0 THEN filePath
  ELSE SplicedAway(SpliceRest(filePath, Ceil(Len(filePath), i)), i - 1)

\* ------------------------------------------------------------------ schemas and frames
NoSchema == [names |-> <<>>, types |-> <<>>]

\* the schemas the source files may have: plain column names, and column names
\* that are canonical array indices ("2020" before "2019")
Schemas ==
  { [names |-> <<"a", "b">>,       types |-> <<"int32", "utf8">>],
    [names |-> <<"2020", "2019">>, types |-> <<"float64", "int64">>] }

\* parseSchema(input, fileType): the schema read from the files given
ParseSchema(input, schema) == IF input = <<>> THEN NoSchema ELSE schema

ArrowToCUDFType(type) ==
  CASE type = "int32"   -> "Int32"
    [] type = "int64"   -> "Int64"
    [] type = "float64" -> "Float64"
    [] type = "utf8"    -> "Utf8String"

\* the property keys that are array indices, with their numeric values
ArrayIndex == [key \in {"2019", "2020"} |-> IF key = "2019" THEN 2019 ELSE 2020]

IsArrayIndex(key) == key \in DOMAIN ArrayIndex

\* {...obj, [key]: value} as the list of the object's own properties in
\* enumeration order: array-index keys first, ascending, then the other string
\* keys in the order they were first set; setting a key again keeps its place
ObjectSet(obj, key, value) ==
  IF \E k \in 1..Len(obj) : obj[k][1] = key
  THEN [k \in 1..Len(obj) |-> IF obj[k][1] = key THEN <<key, value>> ELSE obj[k]]
  ELSE IF IsArrayIndex(key)
       THEN LET before == SelectSeq(obj, LAMBDA kv : IsArrayIndex(kv[1])
                                                     /\ ArrayIndex[kv[1]] < ArrayIndex[key])
                after  == SelectSeq(obj, LAMBDA kv : ~(IsArrayIndex(kv[1])
                                                       /\ ArrayIndex[kv[1]] < ArrayIndex[key]))
            IN  before \o <<<<key, value>>>> \o after
       ELSE Append(obj, <<key, value>>)

\* names.reduce((xs, name, i) => ({...xs, [name]: Series.new({type: ..., data: []})}), {})
RECURSIVE ReduceNames(_, _, _, _)
ReduceNames(names, types, i, xs) ==
  IF i > Len(names) THEN xs
  ELSE ReduceNames(names, types, i + 1, ObjectSet(xs, names[i], ArrowToCUDFType(types[i])))

\* new DataFrame(obj): one column per entry of Object.entries(obj), in that
\* order; a frame is its <<name, type>> columns and its number of rows
DataFrame(obj, rows) == [columns |-> obj, rows |-> rows]

NoFrame == DataFrame(<<>>, 0 - 1)

\* the frame a caller gives to createDataFrameTable
InputFrame == DataFrame(<<<<"a", "Int32">>>>, 1)

\* const empty = new DataFrame(names.reduce(...))
EmptyFrame(parsed) == DataFrame(ReduceNames(parsed.names, parsed.types, 1, <<>>), 0)

\* ------------------------------------------------------------------ DataFrame.fromArrow
\* the field names of the Arrow tables: three plain names, and two that are
\* canonical array indices
FieldNames == {"ints", "floats", "points", "2020", "2019"}

Leaf(name, type) == [name |-> name, type |-> type, children |-> <<>>]

\* arrow.Field: "points" is a struct of two doubles
ArrowField(name) ==
  CASE name = "ints"   -> Leaf(name, "Int32")
    [] name = "floats" -> Leaf(name, "Float64")
    [] name = "points" -> [name |-> name, type |-> "Struct",
                           children |-> <<Leaf("x", "Float64"), Leaf("y", "Float64")>>]
    [] name = "2020"   -> Leaf(name, "Float64")
    [] name = "2019"   -> Leaf(name, "Int32")

\* the i-th column of the table: its values in row order tell the columns
\* apart; a struct column has one child column per child field
RECURSIVE ArrowColumn(_, _)
ArrowColumn(field, i) ==
  [data     |-> IF field.children = <<>> THEN <<i, i + 1>> ELSE <<>>,
   children |-> [j \in 1..Len(field.children) |->
                   ArrowColumn(field.children[j], (i * 10) + j)]]

\* the Arrow tables: every list of at most MaxFields field names
ArrowTables ==
  UNION {[1..m -> FieldNames] : m \in 0..MaxFields}

\* where the IPC buffer is: host memory (ArrayBuffer, typed array), a view of
\* device memory, device memory, device memory shared by another process
MemoryKinds == {"ArrayBuffer", "Uint8Array", "MemoryView", "DeviceBuffer", "IpcMemory"}

\* arrow.tableToIPC(table) held in a memory of that kind
ArrowMemory(kind, names) == [kind |-> kind, names |-> names]

\* if (memory instanceof ArrayBuffer || ArrayBuffer.isView(memory)) memory = new Uint8Buffer(memory);
\* if (memory instanceof MemoryView) memory = memory.buffer;
ToDeviceBuffer(memory) ==
  LET m1 == IF memory.kind \in {"ArrayBuffer", "Uint8Array"}
            THEN [memory EXCEPT !.kind = "MemoryView"] ELSE memory
  IN  IF m1.kind = "MemoryView" THEN [m1 EXCEPT !.kind = "DeviceBuffer"] ELSE m1

\* Table.fromArrow(memory): the fields and the columns read from the buffer
TableFromArrow(memory) ==
  [fields |-> [i \in 1..Len(memory.names) |-> ArrowField(memory.names[i])],
   table  |-> [i \in 1..Len(memory.names) |->
                 ArrowColumn(ArrowField(memory.names[i]), i)]]

\* colToSeries(field, col)
RECURSIVE ColToSeries(_, _)
ColToSeries(field, col) ==
  [type     |-> field.type,
   data     |-> col.data,
   children |-> [j \in 1..Len(field.children) |->
                   ColToSeries(field.children[j], col.children[j])]]

\* fields.reduce((seriesMap, f, i) =>
\*   ({...seriesMap, [f.name]: colToSeries(f, table.getColumnByIndex(i))}), {})
RECURSIVE ReduceFields(_, _, _, _)
ReduceFields(fields, table, i, seriesMap) ==
  IF i > Len(fields) THEN seriesMap
  ELSE ReduceFields(fields, table, i + 1,
                    ObjectSet(seriesMap, fields[i].name, ColToSeries(fields[i], table[i])))

\* DataFrame.fromArrow(memory)
FromArrow(memory) ==
  LET read == TableFromArrow(ToDeviceBuffer(memory))
  IN  DataFrame(ReduceFields(read.fields, read.table, 1, <<>>), 2)

\* ------------------------------------------------------------------ channel and worker calls
NoRef == <<>>

\* `broadcast_table_message_${ctxToken}`
MessageId(token) == <<token, 0>>

\* context.send(id, ctxToken, messageId, df): df is registered under messageId
\* for worker id when the call returns
SendEvent(id, token, messageId, df) ==
  [ev |-> "send", worker |-> id, token |-> token, ref |-> messageId,
   paths |-> <<>>, payload |-> df, info |-> <<>>]

\* context.broadcast(ctxToken, df): df is registered under each reference of
\* the returned array when the call returns
BroadcastIds(token, n) == [k \in 1..n |-> <<token, k>>]

BroadcastEvents(token, df, n) ==
  [k \in 1..n |->
     [ev |-> "broadcast", worker |-> NoWorker, token |-> token,
      ref |-> BroadcastIds(token, n)[k], paths |-> <<>>, payload |-> df, info |-> <<>>]]

\* worker.sql(query, token), worker.dropTable(name),
\* worker.createDataFrameTable(name, ref), worker.create<X>Table(name, paths),
\* worker.createContext(props)
CallEvent(w, kind, token, ref, paths) ==
  [ev |-> kind, worker |-> w, token |-> token, ref |-> ref,
   paths |-> paths, payload |-> NoFrame, info |-> <<>>]

CallKinds == {"sql", "drop", "createDataFrameTable", "createFileTable", "createContext"}

RECURSIVE Flatten(_)
Flatten(ss) == IF ss = <<>> THEN <<>> ELSE Head(ss) \o Flatten(Tail(ss))

\* faulty variant: every worker is given the base port
UcpInfoSamePort(ws, port) ==
  LET rev == Reverse(ws)
  IN  [i \in 1..Len(rev) |-> [id |-> rev[i], port |-> port]]

\* [...this._workers].reverse().map(({id}) => ({id, ip, port: port + id}))
UcpInfo(ws, port) ==
  LET rev == Reverse(ws)
  IN  [i \in 1..Len(rev) |-> [id |-> rev[i], port |-> port + rev[i]]]

\* this._workers.map((worker) => worker.createContext({...props, workersUcpInfo}))
ContextEvents(ws, port) ==
  LET workersUcpInfo == UcpInfo(ws, port)
  IN  [i \in 1..Len(ws) |->
         [CallEvent(ws[i], "createContext", NoToken, NoRef, <<>>)
            EXCEPT !.info = workersUcpInfo]]

\* faulty variant: the workers are called one after the other, so only the
\* first call is made before the coordinator waits
SqlEventsOneByOne(ws, token) ==
  IF ws = <<>> THEN <<>> ELSE <<CallEvent(ws[1], "sql", token, NoRef, <<>>)>>

\* this._workers.map(worker => worker.sql(query, token))
SqlEvents(ws, token) ==
  [i \in 1..Len(ws) |-> CallEvent(ws[i], "sql", token, NoRef, <<>>)]

\* this._workers.map(worker => worker.dropTable(tableName))
DropEvents(ws) ==
  [i \in 1..Len(ws) |-> CallEvent(ws[i], "drop", NoToken, NoRef, <<>>)]

\* faulty variant: the references are handed out in the order broadcast
\* returned them
DataFrameTableEventsUnreversed(ws, token, df) ==
  LET ids == BroadcastIds(token, Len(ws))
  IN  BroadcastEvents(token, df, Len(ws))
      \o [i \in 1..Len(ws) |-> CallEvent(ws[i], "createDataFrameTable", NoToken, ids[i], <<>>)]

\* const ids = this.context.context.broadcast(token, input).reverse();
\* this._workers.map((worker, i) => worker.createDataFrameTable(tableName, ids[i]))
DataFrameTableEvents(ws, token, df) ==
  LET ids == Reverse(BroadcastIds(token, Len(ws)))
  IN  BroadcastEvents(token, df, Len(ws))
      \o [i \in 1..Len(ws) |-> CallEvent(ws[i], "createDataFrameTable", NoToken, ids[i], <<>>)]

\* faulty variants of the branch for a worker without paths: the worker is
\* told to pull before the frame is sent; the worker is skipped
EmptyBranchCallFirst(w, token, empty) ==
  << CallEvent(w, "createDataFrameTable", NoToken, MessageId(token), <<>>),
     SendEvent(w, token, MessageId(token), empty) >>

EmptyBranchSkipped(w, token, empty) == <<>>

\* const message = `broadcast_table_message_${ctxToken}`;
\* this.context.context.send(worker.id, ctxToken, message, empty);
\* return worker.createDataFrameTable(tableName, message);
EmptyBranchEvents(w, token, empty) ==
  << SendEvent(w, token, MessageId(token), empty),
     CallEvent(w, "createDataFrameTable", NoToken, MessageId(token), <<>>) >>

\* faulty variant: the chunks are dealt over this._workers as it is, highest
\* id first
FileTableEventsUnreversed(ws, chunks, sent, empty) ==
  Flatten([i \in 1..Len(ws) |->
             IF Len(chunks[i]) > 0
             THEN <<CallEvent(ws[i], "createFileTable", NoToken, NoRef, chunks[i])>>
             ELSE EmptyBranchEvents(ws[i], sent[ws[i]], empty)])

\* this._workers.slice().reverse().map((worker, i) => chunkedPaths[i].length > 0
\*    ? cb(worker, chunkedPaths[i]) : <the branch for a worker without paths>)
FileTableEvents(ws, chunks, sent, empty) ==
  LET rev == Reverse(ws)
  IN  Flatten([i \in 1..Len(rev) |->
                 IF Len(chunks[i]) > 0
                 THEN <<CallEvent(rev[i], "createFileTable", NoToken, NoRef, chunks[i])>>
                 ELSE EmptyBranchEvents(rev[i], sent[rev[i]], empty)])

\* ------------------------------------------------------------------ operations
\* One record per call of sql, createDataFrameTable, create<CSV|Parquet|ORC>Table
\* or dropTable:
\*   pc        "explain" (sql, suspended at `await this.explain`), "await"
\*             (suspended at Promise.race / Promise.all), "yielded" (sql, suspended
\*             at a yield), "done", "failed"
\*   token     the token given to Worker.sql or to broadcast
\*   order     this._workers when the operation was dispatched
\*   promises  sql: the array `promises` of the merge loop
\*   res, nb   each worker's promise, and the number of batches it resolved with
\*   calls     the number of Worker calls made for this operation, per worker
\*   arrived   the workers in the order their promises settled
\*   out       the batches yielded so far, <<worker, k>> for its k-th batch
\*   cur       the batch the generator is suspended on
\*   raced     for a worker the loop took: the workers whose promises were
\*             settled, and still in `promises`, when the race was started
\*   rounds    the number of times `await Promise.race` returned
\*   filePath, chunks, sent
\*             file tables: the paths given, chunkedPaths, and the token of the
\*             empty-table send to each worker (NoToken: none)
\*   schema    file tables: the schema of the source files
\*   rest      file tables: what the call left in the array it was given
\*   from      file tables: the earlier call whose array was given again
\*             (0: an array no call has seen)
\*   events    the channel calls (send, broadcast) and the Worker calls the
\*             operation made, in the order it made them
NewOp(kind) ==
  [ kind     |-> kind,
    plan     |-> <<>>,
    pc       |-> "await",
    token    |-> NoToken,
    order    |-> <<>>,
    promises |-> <<>>,
    res      |-> [w \in WorkerIds |-> "none"],
    nb       |-> [w \in WorkerIds |-> 0],
    calls    |-> [w \in WorkerIds |-> 0],
    arrived  |-> <<>>,
    out      |-> <<>>,
    cur      |-> <<>>,
    raced    |-> [w \in WorkerIds |-> {}],
    rounds   |-> 0,
    schema   |-> NoSchema,
    rest     |-> <<>>,
    from     |-> 0,
    events   |-> <<>>,
    filePath |-> <<>>,
    chunks   |-> <<>>,
    sent     |-> [w \in WorkerIds |-> NoToken] ]

\* the number of Worker calls made to w
CallsTo(events, w) ==
  Cardinality({k \in 1..Len(events) : events[k].ev \in CallKinds /\ events[k].worker = w})

\* the operation after it made the calls `events` over the workers `ws`: the
\* promise of every worker called is pending
Dispatched(o, ws, events) ==
  [o EXCEPT !.order  = ws,
            !.events = events,
            !.res    = [w \in WorkerIds |->
                          IF CallsTo(events, w) > 0 THEN "pending" ELSE "none"],
            !.calls  = [w \in WorkerIds |-> CallsTo(events, w)]]

\* ------------------------------------------------------------------ workers
\* A worker's promise fulfils or rejects; the promise of a killed worker rejects.
WorkerOutcomes(w, killedIds) ==
  IF w \in killedIds THEN {"rejected"} ELSE {"fulfilled", "rejected"}

\* A worker whose create call fulfilled holds the table; one whose drop call
\* fulfilled does not; a rejected call leaves the worker as it was.
RegisteredAfter(kind, outcome, w, reg) ==
  IF outcome # "fulfilled" THEN reg
  ELSE IF kind \in {"dfTable", "fileTable"} THEN reg \cup {w}
  ELSE IF kind = "drop" THEN reg \ {w}
  ELSE reg

\* ------------------------------------------------------------------ the merge loop
\* faulty variants: promises.shift(), and promises.splice(idx) without the count
SpliceFirst(promises, idx) == Tail(promises)

SpliceToEnd(promises, idx) == SubSeq(promises, 1, idx - 1)

\* promises.splice(idx, 1)

Splice(promises, idx) ==
  SubSeq(promises, 1, idx - 1) \o SubSeq(promises, idx + 1, Len(promises))

\* faulty variant: only the first promise of the array is awaited
SettledHeadOnly(o) ==
  IF o.promises = <<>> THEN {}
  ELSE {w \in {o.promises[1]} : o.res[w] # "pending"}

\* the promises of the array that are settled
SettledIn(o) == {w \in Range(o.promises) : o.res[w] # "pending"}

\* faulty variant: the last settled promise of the array wins
RaceLast(o) ==
  CHOOSE idx \in 1..Len(o.promises) :
    /\ o.promises[idx] \in SettledIn(o)
    /\ \A j \in (idx + 1)..Len(o.promises) : o.promises[j] \notin SettledIn(o)

\* Promise.race(promises.map((dfs, idx) => dfs.then(...))): the reactions of the
\* promises that are settled already run in array order, so the first of them in
\* the array wins; a promise that settles while the race is awaited wins alone.
RaceWinner(o) ==
  CHOOSE idx \in 1..Len(o.promises) :
    /\ o.promises[idx] \in SettledIn(o)
    /\ \A j \in 1..(idx - 1) : o.promises[j] \notin SettledIn(o)

\* faulty variant: a rejected result is taken for a result without batches
RECURSIVE MergeLoopSwallow(_)
MergeLoopSwallow(o) ==
  IF Len(o.promises) = 0 THEN [o EXCEPT !.pc = "done"]
  ELSE IF SettledIn(o) = {} THEN [o EXCEPT !.pc = "await"]
  ELSE LET idx == RaceWinner(o)
           w   == o.promises[idx]
           o1  == [o EXCEPT !.promises = Splice(o.promises, idx),
                            !.rounds   = o.rounds + 1,
                            !.raced[w] = SettledIn(o)]
       IN  IF o.res[w] = "rejected" \/ o.nb[w] = 0
           THEN MergeLoopSwallow(o1)
           ELSE [o1 EXCEPT !.pc  = "yielded",
                           !.cur = <<w, 1>>,
                           !.out = Append(o1.out, <<w, 1>>)]

\* while (promises.length > 0) { {dfs, idx} = await Promise.race(...);
\*                               promises.splice(idx, 1); yield* dfs; }
\* run from the loop's test to the next suspension
RECURSIVE MergeLoop(_)
MergeLoop(o) ==
  IF Len(o.promises) = 0 THEN [o EXCEPT !.pc = "done"]
  ELSE IF SettledIn(o) = {} THEN [o EXCEPT !.pc = "await"]
  ELSE LET idx == RaceWinner(o)
           w   == o.promises[idx]
       IN  IF o.res[w] = "rejected"
           THEN [o EXCEPT !.pc = "failed", !.raced[w] = SettledIn(o)]
           ELSE LET o1 == [o EXCEPT !.promises = Splice(o.promises, idx),
                                    !.rounds   = o.rounds + 1,
                                    !.raced[w] = SettledIn(o)]
                IN  IF o.nb[w] = 0
                    THEN MergeLoop(o1)
                    ELSE [o1 EXCEPT !.pc  = "yielded",
                                    !.cur = <<w, 1>>,
                                    !.out = Append(o1.out, <<w, 1>>)]

\* faulty variant: on a failure the workers that succeeded are called again to
\* undo their part
AllSettleCompensating(o) ==
  IF o.pc # "await" THEN o
  ELSE IF \E w \in Range(o.order) : o.res[w] = "rejected"
       THEN [o EXCEPT !.pc = "failed",
                      !.calls = [w \in WorkerIds |->
                                   IF o.res[w] = "fulfilled" THEN o.calls[w] + 1
                                   ELSE o.calls[w]]]
  ELSE IF \A w \in Range(o.order) : o.res[w] = "fulfilled" THEN [o EXCEPT !.pc = "done"]
  ELSE o

\* Promise.all over the workers' promises: rejected by the first rejection,
\* fulfilled once all are fulfilled
AllSettle(o) ==
  IF o.pc # "await" THEN o
  ELSE IF \E w \in Range(o.order) : o.res[w] = "rejected" THEN [o EXCEPT !.pc = "failed"]
  ELSE IF \A w \in Range(o.order) : o.res[w] = "fulfilled" THEN [o EXCEPT !.pc = "done"]
  ELSE o

\* ------------------------------------------------------------------ tokens
TokenEntry(s, w, token) == [op |-> s, worker |-> w, token |-> token]

\* the workers, in the order of `this._workers.slice().reverse()`, whose chunk is empty
EmptyWorkers(ws, chunks) ==
  LET rev == Reverse(ws)
  IN  SelectSeq([i \in 1..Len(rev) |-> <<rev[i], Len(chunks[i])>>],
                LAMBDA p : p[2] = 0)

\* ctxToken += 1; send(worker.id, ctxToken, ...): the k-th send takes token + k
SentTokens(empties, token) ==
  [w \in WorkerIds |->
     IF \E k \in 1..Len(empties) : empties[k][1] = w
     THEN token + (CHOOSE k \in 1..Len(empties) : empties[k][1] = w)
     ELSE NoToken]

\* ------------------------------------------------------------------ initial state
\* faulty variant: every remote worker is given the cluster's id
ConstructWorkersSameId(id, numWorkers) ==
  Reverse([i \in 1..numWorkers |-> id])

\* new SQLCluster(id, numWorkers):
\*   Array.from({length: numWorkers},
\*              (_, i) => i === 0 ? this._worker : new RemoteSQLWorker(this, id + i, ...))
\*        .reverse()
ConstructWorkers(id, numWorkers) ==
  Reverse([i \in 1..numWorkers |-> IF i - 1 = 0 THEN id ELSE id + (i - 1)])

\* new SQLCluster(0, numWorkers)
InitWorkers(maxWorkers) ==
  {ConstructWorkers(0, n) : n \in 1..maxWorkers}

\* the state a constructor call leaves
ConstructedCluster(id, numWorkers) ==
  /\ workers = ConstructWorkers(id, numWorkers)
  /\ localId = id
  /\ ctxToken = 0
  /\ killed = {}
  /\ ops = <<>>
  /\ tokenLog = <<>>
  /\ killCalls = [w \in WorkerIds |-> 0]
  /\ registered = {}

Constructed(id, numWorkers) == ConstructedCluster(id, numWorkers) /\ call = NoCall

InitOf(maxWorkers) ==
  \E n \in 1..maxWorkers : Constructed(0, n)

\* ------------------------------------------------------------------ actions
\* sql(query) and the consumer's first next(): the generator runs to
\* `await this.explain(query)`
SqlCall(plan, maxOps) ==
  /\ Len(ops) < maxOps
  /\ ops' = Append(ops, [NewOp("sql") EXCEPT !.plan = plan, !.pc = "explain"])
  /\ UNCHANGED <<workers, ctxToken, killed, tokenLog, killCalls, localId, call, registered>>

\* faulty variant: the token is taken before the early return
SqlDispatchTokenFirst(s) ==
  /\ ops[s].kind = "sql" /\ ops[s].pc = "explain"
  /\ ctxToken' = ctxToken + 1
  /\ IF IsStaticallyEmpty(ops[s].plan)
     THEN /\ ops' = [ops EXCEPT ![s].pc = "done"]
          /\ UNCHANGED tokenLog
     ELSE /\ tokenLog' = Append(tokenLog, TokenEntry(s, NoWorker, ctxToken))
          /\ ops' = [ops EXCEPT ![s] =
                       MergeLoop([Dispatched(ops[s], workers, SqlEvents(workers, ctxToken)) EXCEPT
                                    !.token = ctxToken, !.promises = workers])]
  /\ UNCHANGED <<workers, killed, killCalls, localId, call, registered>>

\* the generator resumes after explain: the early return, or the token, the
\* fan-out and the first turn of the loop
SqlDispatch(s) ==
  /\ ops[s].kind = "sql" /\ ops[s].pc = "explain"
  /\ IF IsStaticallyEmpty(ops[s].plan)
     THEN /\ ops' = [ops EXCEPT ![s].pc = "done"]
          /\ UNCHANGED <<ctxToken, tokenLog>>
     ELSE /\ ctxToken' = ctxToken + 1
          /\ tokenLog' = Append(tokenLog, TokenEntry(s, NoWorker, ctxToken))
          /\ ops' = [ops EXCEPT ![s] =
                       MergeLoop([Dispatched(ops[s], workers, SqlEvents(workers, ctxToken)) EXCEPT
                                    !.token = ctxToken, !.promises = workers])]
  /\ UNCHANGED <<workers, killed, killCalls, localId, call, registered>>

\* createDataFrameTable(tableName, input) up to `await Promise.all`
CreateDataFrameTable(maxOps) ==
  /\ Len(ops) < maxOps
  /\ ctxToken' = ctxToken + Len(workers)
  /\ LET token == ctxToken' - Len(workers)
         s     == Len(ops) + 1
     IN  /\ tokenLog' = Append(tokenLog, TokenEntry(s, NoWorker, token))
         /\ ops' = Append(ops, AllSettle([Dispatched(NewOp("dfTable"), workers,
                                                      DataFrameTableEvents(workers, token,
                                                                           InputFrame))
                                             EXCEPT !.token = token]))
  /\ UNCHANGED <<workers, killed, killCalls, localId, call, registered>>

\* create<CSV|Parquet|ORC>Table(tableName, filePaths) up to `await Promise.all`
FileTableCall(filePath, from, schema, maxOps) ==
  /\ Len(ops) < maxOps
  /\ LET parsed  == ParseSchema(filePath, schema)
         empty   == EmptyFrame(parsed)
         chunks  == ChunkedPaths(filePath, Len(workers))
         empties == EmptyWorkers(workers, chunks)
         s       == Len(ops) + 1
         sent    == SentTokens(empties, ctxToken)
     IN  /\ ctxToken' = ctxToken + Len(empties)
         /\ tokenLog' = tokenLog \o
                          [k \in 1..Len(empties) |->
                             TokenEntry(s, empties[k][1], sent[empties[k][1]])]
         /\ ops' = Append(ops, AllSettle([Dispatched(NewOp("fileTable"), workers,
                                                      FileTableEvents(workers, chunks,
                                                                      sent, empty))
                                             EXCEPT !.filePath = filePath,
                                                    !.schema   = schema,
                                                    !.rest     = SplicedAway(filePath,
                                                                             Len(workers)),
                                                    !.from     = from,
                                                    !.chunks   = chunks,
                                                    !.sent     = sent]))
  /\ UNCHANGED <<workers, killed, killCalls, localId, call, registered>>

\* the call with an array no earlier call has seen
CreateFileTable(filePath, schema, maxOps) == FileTableCall(filePath, 0, schema, maxOps)

\* the call with the array that was given to the earlier call s
CreateFileTableAgain(s, schema, maxOps) ==
  /\ ops[s].kind = "fileTable"
  /\ FileTableCall(ops[s].rest, s, schema, maxOps)

\* dropTable(tableName) up to `await Promise.all`
DropTable(maxOps) ==
  /\ Len(ops) < maxOps
  /\ ops' = Append(ops, AllSettle(Dispatched(NewOp("drop"), workers, DropEvents(workers))))
  /\ UNCHANGED <<workers, ctxToken, killed, tokenLog, killCalls, localId, call, registered>>

\* _createContexts(props) up to `await Promise.all`
CreateContexts(port, maxOps) ==
  /\ Len(ops) < maxOps
  /\ ops' = Append(ops, AllSettle(Dispatched(NewOp("context"), workers,
                                             ContextEvents(workers, port))))
  /\ UNCHANGED <<workers, ctxToken, killed, tokenLog, killCalls, localId, call, registered>>

\* explain(sql), listTables(), describeTable(name): answered by the local
\* worker's context, no fan-out
ReadOnly(kind, maxOps) ==
  /\ Len(ops) < maxOps
  /\ ops' = Append(ops, [NewOp(kind) EXCEPT !.pc = "done"])
  /\ UNCHANGED <<workers, ctxToken, killed, tokenLog, killCalls, localId, call, registered>>

\* a worker's promise settles; a merge loop awaiting the race goes on with it
WorkerSettles(s, w, outcome, n) ==
  /\ ops[s].res[w] = "pending"
  /\ outcome \in WorkerOutcomes(w, killed)
  /\ n = 0 \/ (outcome = "fulfilled" /\ ops[s].kind = "sql")
  /\ LET o1 == [ops[s] EXCEPT !.res[w] = outcome, !.nb[w] = n,
                              !.arrived = Append(ops[s].arrived, w)]
     IN  ops' = [ops EXCEPT ![s] =
                   IF o1.kind = "sql"
                   THEN IF o1.pc = "await" THEN MergeLoop(o1) ELSE o1
                   ELSE AllSettle(o1)]
  /\ registered' = RegisteredAfter(ops[s].kind, outcome, w, registered)
  /\ UNCHANGED <<workers, ctxToken, killed, tokenLog, killCalls, localId, call>>

\* the consumer's next() on a generator suspended at a yield
ConsumerNext(s) ==
  /\ ops[s].kind = "sql" /\ ops[s].pc = "yielded"
  /\ LET o == ops[s]
         w == o.cur[1]
         k == o.cur[2]
     IN  ops' = [ops EXCEPT ![s] =
                   IF k < o.nb[w]
                   THEN [o EXCEPT !.cur = <<w, k + 1>>,
                                  !.out = Append(o.out, <<w, k + 1>>)]
                   ELSE MergeLoop([o EXCEPT !.cur = <<>>])]
  /\ UNCHANGED <<workers, ctxToken, killed, tokenLog, killCalls, localId, call, registered>>

\* faulty variant: the workers are forgotten but not killed
KillDropsWorkersOnly ==
  /\ workers' = <<>>
  /\ UNCHANGED <<ctxToken, killed, ops, tokenLog, killCalls, localId, call, registered>>

\* faulty variant: the workers are killed but stay in the list
KillKeepsWorkers ==
  /\ killed' = killed \cup Range(workers)
  /\ killCalls' = [w \in WorkerIds |->
                     IF w \in Range(workers) /\ killCalls[w] < MaxWorkers
                     THEN killCalls[w] + 1 ELSE killCalls[w]]
  /\ UNCHANGED <<workers, ctxToken, ops, tokenLog, localId, call, registered>>

\* kill(): every worker's kill(), then this._workers.length = 0
Kill ==
  /\ killed' = killed \cup Range(workers)
  /\ killCalls' = [w \in WorkerIds |->
                     IF w \in Range(workers) THEN killCalls[w] + 1 ELSE killCalls[w]]
  /\ workers' = <<>>
  /\ UNCHANGED <<ctxToken, ops, tokenLog, localId, call, registered>>

FilePaths == {[i \in 1..m |-> i] : m \in 0..MaxPaths}

Next ==
  \/ \E plan \in Plans : SqlCall(plan, MaxOps)
  \/ \E s \in 1..Len(ops) : SqlDispatch(s)
  \/ CreateDataFrameTable(MaxOps)
  \/ \E filePath \in FilePaths, schema \in Schemas : CreateFileTable(filePath, schema, MaxOps)
  \/ DropTable(MaxOps)
  \/ \E s \in 1..Len(ops), w \in WorkerIds, outcome \in {"fulfilled", "rejected"},
        n \in 0..MaxBatches : WorkerSettles(s, w, outcome, n)
  \/ \E s \in 1..Len(ops) : ConsumerNext(s)
  \/ Kill

Init == InitOf(MaxFanout)

Spec == Init /\ [][Next]_vars

\* a cluster that runs one streaming query
InitStream == InitOf(MaxWorkers)

NextStream ==
  \/ \E plan \in Plans : SqlCall(plan, 1)
  \/ \E s \in 1..Len(ops) : SqlDispatch(s)
  \/ \E s \in 1..Len(ops), w \in WorkerIds, outcome \in {"fulfilled", "rejected"},
        n \in 0..MaxBatches : WorkerSettles(s, w, outcome, n)
  \/ \E s \in 1..Len(ops) : ConsumerNext(s)
  \/ Kill

SpecStream == InitStream /\ [][NextStream]_vars

\* a cluster that runs one table operation
InitTable == InitOf(MaxWorkers)

NextTable ==
  \/ CreateDataFrameTable(1)
  \/ \E filePath \in FilePaths, schema \in Schemas : CreateFileTable(filePath, schema, 1)
  \/ DropTable(1)
  \/ \E s \in 1..Len(ops), w \in WorkerIds, outcome \in {"fulfilled", "rejected"} :
        WorkerSettles(s, w, outcome, 0)
  \/ Kill

SpecTable == InitTable /\ [][NextTable]_vars

\* a cluster that runs two table operations, one after or during the other
InitPair == InitOf(MaxFanout)

PairPaths == {[i \in 1..MaxFanout |-> i]}

NextPair ==
  \/ CreateDataFrameTable(2)
  \/ \E filePath \in PairPaths, schema \in Schemas : CreateFileTable(filePath, schema, 2)
  \/ \E s \in 1..Len(ops), schema \in Schemas : CreateFileTableAgain(s, schema, 2)
  \/ DropTable(2)
  \/ \E s \in 1..Len(ops), w \in WorkerIds, outcome \in {"fulfilled", "rejected"} :
        WorkerSettles(s, w, outcome, 0)
  \/ Kill

SpecPair == InitPair /\ [][NextPair]_vars

\* a cluster built with any id that runs one operation of any kind: the fan-out
\* of init's _createContexts, or a call made after init
Ports == {4000, 4010}

ReadOnlyKinds == {"explain", "listTables", "describeTable"}

InitOne == \E id \in 0..MaxBaseId, n \in 1..MaxWorkers : Constructed(id, n)

NextOne ==
  \/ \E port \in Ports : CreateContexts(port, 1)
  \/ \E kind \in ReadOnlyKinds : ReadOnly(kind, 1)
  \/ \E plan \in Plans : SqlCall(plan, 1)
  \/ \E s \in 1..Len(ops) : SqlDispatch(s)
  \/ CreateDataFrameTable(1)
  \/ \E filePath \in FilePaths, schema \in Schemas : CreateFileTable(filePath, schema, 1)
  \/ DropTable(1)
  \/ \E s \in 1..Len(ops), w \in WorkerIds, outcome \in {"fulfilled", "rejected"},
        n \in 0..MaxBatches : WorkerSettles(s, w, outcome, n)
  \/ \E s \in 1..Len(ops) : ConsumerNext(s)
  \/ Kill

SpecOne == InitOne /\ [][NextOne]_vars

\* ------------------------------------------------------------------ calls of DataFrame functions
\* the variables of the cluster, which these calls do not touch
cluster == <<workers, ctxToken, killed, ops, tokenLog, killCalls, localId, registered>>

Calling(fn, args) == [fn |-> fn, args |-> args, result |-> <<>>, returned |-> FALSE]

\* the function returns
Returns(result) ==
  /\ ~call.returned
  /\ call' = [call EXCEPT !.result = result, !.returned = TRUE]
  /\ UNCHANGED cluster

\* DataFrame.fromArrow(memory) on any table in any kind of memory
InitArrow ==
  /\ ConstructedCluster(0, 1)
  /\ \E kind \in MemoryKinds, names \in ArrowTables :
       call = Calling("fromArrow", ArrowMemory(kind, names))

FromArrowReturns == call.fn = "fromArrow" /\ Returns(FromArrow(call.args))

NextArrow == FromArrowReturns

SpecArrow == InitArrow /\ [][NextArrow]_vars

\* ------------------------------------------------------------------ DataFrame.nansToNulls
ColumnNames == {"a", "b", "c", "d"}

ColumnTypes == {"Int32", "Float32", "Float64"}

FloatTypes == {"Float32", "Float64"}

\* a column: its type, the column of the original frame its values are from,
\* and whether its NaNs were turned to nulls
SourceColumn(name, type) == [type |-> type, data |-> name, nansToNulls |-> FALSE]

\* the frames with up to MaxFields columns of distinct names
Frames ==
  UNION {{DataFrame([i \in 1..m |-> <<names[i], SourceColumn(names[i], types[i])>>], 2) :
            names \in {f \in [1..m -> ColumnNames] : \A i, j \in 1..m : f[i] = f[j] => i = j},
            types \in [1..m -> ColumnTypes]} :
         m \in 0..MaxFields}

\* get names(), get(name), types[name]
Names(df) == [i \in 1..Len(df.columns) |-> df.columns[i][1]]

Get(df, name) == df.columns[CHOOSE i \in 1..Len(df.columns) : df.columns[i][1] = name][2]

\* the argument left out
Undefined == <<"undefined">>

\* the lists of distinct names of df, in any order
SubsetsOf(df) ==
  UNION {{f \in [1..m -> Range(Names(df))] : \A i, j \in 1..m : f[i] = f[j] => i = j} :
         m \in 0..Len(df.columns)}

\* select(names): the frame of the named columns, in the order of `names`
Select(df, names) == DataFrame([i \in 1..Len(names) |-> <<names[i], Get(df, names[i])>>], df.rows)

\* new Table({columns}): the columns by position
Table(df) == [i \in 1..Len(df.columns) |-> df.columns[i][2]]

\* what a call gives back: a value, or an exception
Value(v) == [threw |-> FALSE, value |-> v]

Threw == [threw |-> TRUE, value |-> NoFrame]

\* this.names.forEach((name, index) => { series_map[name] = ... }): the column
\* is temp.getColumnByIndex(index), which throws past the table's last column;
\* position i here is index i - 1 there
RECURSIVE ForEachName(_, _, _, _)
ForEachName(df, temp, i, series_map) ==
  IF i > Len(df.columns) THEN Value(DataFrame(series_map, df.rows))
  ELSE IF i > Len(temp) THEN Threw
  ELSE LET name == Names(df)[i]
           col  == temp[i]
       IN  ForEachName(df, temp, i + 1,
             ObjectSet(series_map, name,
                       IF Get(df, name).type \in FloatTypes
                       THEN [col EXCEPT !.nansToNulls = TRUE] ELSE col))

NansToNulls(df, subset) ==
  LET given == IF subset = Undefined THEN Names(df) ELSE subset
      temp  == Table(Select(df, given))
  IN  ForEachName(df, temp, 1, <<>>)

\* df.nansToNulls(subset) on any frame, with any list of its names or none
InitNans ==
  /\ ConstructedCluster(0, 1)
  /\ \E df \in Frames :
       \E subset \in {Undefined} \cup SubsetsOf(df) :
         call = Calling("nansToNulls", [df |-> df, subset |-> subset])

NansToNullsReturns ==
  call.fn = "nansToNulls" /\ Returns(NansToNulls(call.args.df, call.args.subset))

NextNans == NansToNullsReturns

SpecNans == InitNans /\ [][NextNans]_vars

\* ------------------------------------------------------------------ Join
\* the key column, and the other names: one plain, two that are the plain one
\* with a suffix
Key == "k"

OtherNames == {"x", "x_l", "x_r"}

Suffixes == {"", "_l", "_r"}

\* a column of a frame given to the join: the side it was given as, the column
\* it is, and its type
JoinColumn(side, name, type) == [side |-> side, data |-> name, type |-> type]

\* the frames of one side: the key column, of any of `keyTypes`, and up to
\* MaxFields - 1 other columns
JoinFrames(side, keyTypes) ==
  UNION {{DataFrame(<<<<Key, JoinColumn(side, Key, t)>>>>
                    \o [i \in 1..m |-> <<names[i], JoinColumn(side, names[i], "Int32")>>], 2) :
            names \in {f \in [1..m -> OtherNames] : \A i, j \in 1..m : f[i] = f[j] => i = j},
            t \in keyTypes} :
         m \in 0..(MaxFields - 1)}

\* the props with and without an optional property
WithOptional(props, key, values) == props \cup {p @@ (key :> v) : p \in props, v \in values}

JoinProps ==
  LET required == {[lhs |-> lhs, rhs |-> rhs, on |-> <<Key>>] :
                     lhs \in JoinFrames("lhs", {"Int32"}),
                     rhs \in JoinFrames("rhs", {"Int32", "Float64"})}
  IN  WithOptional(WithOptional(WithOptional(WithOptional(required,
        "lsuffix", Suffixes), "rsuffix", Suffixes), "nullEquality", BOOLEAN),
        "memoryResource", {"mr"})

\* const {name = value} = props
Default(props, name, value) == IF name \in DOMAIN props THEN props[name] ELSE value

FindCommonType(a, b) == IF a = b THEN a ELSE "Float64"

\* df.assign({[name]: col}): the named column replaced in its place
Assign(df, name, col) ==
  DataFrame([i \in 1..Len(df.columns) |->
               IF df.columns[i][1] = name THEN <<name, col>> ELSE df.columns[i]], df.rows)

\* this.on.forEach(...): the key columns of both sides cast to a common type
RECURSIVE CastOn(_, _, _, _)
CastOn(lhs, rhs, on, i) ==
  IF i > Len(on) THEN <<lhs, rhs>>
  ELSE LET lhs_col == Get(lhs, on[i])
           rhs_col == Get(rhs, on[i])
           type    == FindCommonType(lhs_col.type, rhs_col.type)
       IN  IF lhs_col.type = rhs_col.type
           THEN CastOn(lhs, rhs, on, i + 1)
           ELSE CastOn(Assign(lhs, on[i], [lhs_col EXCEPT !.type = type]),
                       Assign(rhs, on[i], [rhs_col EXCEPT !.type = type]), on, i + 1)

\* new Join(props)
NewJoin(props) ==
  LET cast == CastOn(props.lhs, props.rhs, props.on, 1)
  IN  [lhs            |-> cast[1],
       rhs            |-> cast[2],
       on             |-> props.on,
       lsuffix        |-> Default(props, "lsuffix", ""),
       rsuffix        |-> Default(props, "rsuffix", ""),
       nullEquality   |-> Default(props, "nullEquality", TRUE),
       memoryResource |-> Default(props, "memoryResource", "undefined")]

\* Table.leftJoin(left, right, nullEquality, memoryResource): the two gather
\* maps, each known by the arguments that determine it
LeftJoin(left, right, nullEquality, memoryResource) ==
  LET join == [left |-> left, right |-> right, nullEquality |-> nullEquality,
               memoryResource |-> memoryResource]
  IN  << [map |-> "lhsMap", join |-> join], [map |-> "rhsMap", join |-> join] >>

\* df.gather(map, true): every column, gathered by the map
Gather(df, map) ==
  DataFrame([i \in 1..Len(df.columns) |->
               <<df.columns[i][1], [of |-> df.columns[i][2], by |-> map]>>], df.rows)

\* df.drop(names)
Drop(df, names) ==
  DataFrame(SelectSeq(df.columns, LAMBDA c : c[1] \notin Range(names)), df.rows)

\* the name getColumns gives a column
NewName(name, on, rhsNames, suffix) ==
  IF name \in Range(on) THEN name
  ELSE IF name \in Range(rhsNames) THEN name \o suffix
  ELSE name

\* getColumns(lhs, rhsNames, suffix): lhs.names.reduce((cols, name) => ...)
RECURSIVE GetColumns(_, _, _, _, _, _)
GetColumns(lhs, rhsNames, on, suffix, i, cols) ==
  IF i > Len(lhs.columns) THEN cols
  ELSE LET name == Names(lhs)[i]
       IN  GetColumns(lhs, rhsNames, on, suffix, i + 1,
                      ObjectSet(cols, NewName(name, on, rhsNames, suffix), Get(lhs, name)))

\* {...a, ...b}
RECURSIVE Spread(_, _, _)
Spread(a, b, i) ==
  IF i > Len(b) THEN a ELSE Spread(ObjectSet(a, b[i][1], b[i][2]), b, i + 1)

\* faulty variant: the right-hand columns win whatever the suffixes
MergeResultsRightWins(lhs, rhs, on, lsuffix, rsuffix) ==
  LET lhsCols == GetColumns(lhs, Names(rhs), on, lsuffix, 1, <<>>)
      rhsCols == GetColumns(rhs, Names(lhs), on, rsuffix, 1, <<>>)
  IN  Spread(lhsCols, rhsCols, 1)

MergeResults(lhs, rhs, on, lsuffix, rsuffix) ==
  LET lhsCols == GetColumns(lhs, Names(rhs), on, lsuffix, 1, <<>>)
      rhsCols == GetColumns(rhs, Names(lhs), on, rsuffix, 1, <<>>)
  IN  IF lsuffix = "" /\ rsuffix = ""
      THEN Spread(rhsCols, lhsCols, 1)
      ELSE Spread(lhsCols, rhsCols, 1)

\* join.left()
Left(join) ==
  LET maps == LeftJoin(Table(Select(join.lhs, join.on)), Table(Select(join.rhs, join.on)),
                       join.nullEquality, join.memoryResource)
      lhs  == Gather(join.lhs, maps[1])
      rhs  == Gather(Drop(join.rhs, join.on), maps[2])
  IN  DataFrame(MergeResults(lhs, rhs, join.on, join.lsuffix, join.rsuffix), lhs.rows)

\* join.right()
Right(join) ==
  Left(NewJoin([on      |-> join.on,
                lhs     |-> join.rhs,
                rhs     |-> join.lhs,
                lsuffix |-> join.rsuffix,
                rsuffix |-> join.lsuffix]))

\* new Join(props).left() and new Join(props).right(), for any props
InitJoin ==
  /\ ConstructedCluster(0, 1)
  /\ \E how \in {"left", "right"}, props \in JoinProps : call = Calling(how, props)

JoinLeftReturns == call.fn = "left" /\ Returns(Left(NewJoin(call.args)))

JoinRightReturns == call.fn = "right" /\ Returns(Right(NewJoin(call.args)))

NextJoin == JoinLeftReturns \/ JoinRightReturns

SpecJoin == InitJoin /\ [][NextJoin]_vars

\* a cluster built with any id that runs one table operation
InitIds == \E id \in 0..MaxBaseId, n \in 1..MaxWorkers : Constructed(id, n)

SpecIds == InitIds /\ [][NextTable]_vars

\* ------------------------------------------------------------------ the file split: C1, C2, C3
\* the file-table creations that ran with at least one worker
FileOps == {s \in 1..Len(ops) : ops[s].kind = "fileTable" /\ Len(ops[s].order) >= 1}

ChunkSlots(chunks) == {<<k, i>> \in (1..Len(chunks)) \X (1..MaxPaths + 1) : i <= Len(chunks[k])}

RECURSIVE SizeBefore(_, _)
SizeBefore(chunks, k) ==
  IF k <= 1 THEN 0 ELSE SizeBefore(chunks, k - 1) + Len(chunks[k - 1])

\* C1: the per-worker lists partition the input: one list per worker, every
\* input path in exactly one place of exactly one list, and no path in a list
\* that was not given.
C1_ChunksPartitionInput ==
  \A s \in FileOps :
    LET o == ops[s]
    IN  /\ Len(o.chunks) = Len(o.order)
        /\ \A p \in Range(o.filePath) :
             Cardinality({sl \in ChunkSlots(o.chunks) : o.chunks[sl[1]][sl[2]] = p}) = 1
        /\ \A sl \in ChunkSlots(o.chunks) : o.chunks[sl[1]][sl[2]] \in Range(o.filePath)

C1_Witness ==
  \E s \in FileOps :
    /\ Len(ops[s].filePath) >= 4
    /\ Len(ops[s].order) >= 2
    /\ \A k \in 1..Len(ops[s].chunks) : Len(ops[s].chunks[k]) >= 1

\* C2: chunk k (from 0) is the first ceil(r / (N - k)) of the r paths still
\* unassigned, in input order; so the sizes never increase along the chunks, the
\* trailing chunks are empty when there are fewer paths than workers, and 7
\* paths over 3 workers give the sizes 3, 2, 2.
C2_ChunkIsCeilOfRemaining ==
  \A s \in FileOps :
    LET o      == ops[s]
        m      == Len(o.filePath)
        nw     == Len(o.order)
        before(k) == SizeBefore(o.chunks, k)
    IN  /\ Len(o.chunks) = nw
        /\ \A k \in 1..nw :
             o.chunks[k] = SubSeq(o.filePath, before(k) + 1,
                                  before(k) + Ceil(m - before(k), nw - (k - 1)))
        /\ \A k \in 1..(nw - 1) : Len(o.chunks[k]) >= Len(o.chunks[k + 1])
        /\ m < nw => \A k \in (m + 1)..nw : o.chunks[k] = <<>>
        /\ (m = 7 /\ nw = 3) => [k \in 1..nw |-> Len(o.chunks[k])] = <<3, 2, 2>>

C2_Witness ==
  \E s \in FileOps :
    /\ Len(ops[s].filePath) = 7
    /\ Len(ops[s].order) = 3
    /\ ops[s].chunks = << <<1, 2, 3>>, <<4, 5>>, <<6, 7>> >>

\* C3: the split is as even as possible: any two workers' sizes differ by at
\* most 1, each being floor(m / N) or ceil(m / N).
C3_ChunksEven ==
  \A s \in FileOps :
    LET o  == ops[s]
        m  == Len(o.filePath)
        nw == Len(o.order)
    IN  /\ \A k1, k2 \in 1..Len(o.chunks) :
             Len(o.chunks[k1]) - Len(o.chunks[k2]) <= 1
        /\ \A k \in 1..Len(o.chunks) :
             Len(o.chunks[k]) \in {m \div nw, Ceil(m, nw)}

C3_Witness ==
  \E s \in FileOps :
    /\ Len(ops[s].filePath) = 5
    /\ Len(ops[s].order) = 3
    /\ Len(ops[s].chunks[1]) = 2 /\ Len(ops[s].chunks[3]) = 1

\* ------------------------------------------------------------------ tokens: C4, C5
\* C4: every token handed to the channel or the workers (by sql, by
\* createDataFrameTable, by an empty-table send) is strictly greater than every
\* token handed out before it.
C4_TokensStrictlyIncrease ==
  \A i, j \in 1..Len(tokenLog) :
    i < j => tokenLog[i].token < tokenLog[j].token

\* The dispatched operations that have not completed: <<s, 0>> for a streaming
\* query or a createDataFrameTable, <<s, w + 1>> for the empty-table send to
\* worker w of a file-table creation.
PendingUnits ==
  {<<s, 0>> : s \in {t \in 1..Len(ops) :
                       \/ ops[t].kind = "sql" /\ ops[t].pc \in {"await", "yielded"}
                       \/ ops[t].kind = "dfTable" /\ ops[t].pc = "await"}}
  \cup
  {<<s, w + 1>> : <<s, w>> \in {p \in (1..Len(ops)) \X WorkerIds :
                       /\ ops[p[1]].kind = "fileTable"
                       /\ ops[p[1]].sent[p[2]] # NoToken
                       /\ ops[p[1]].res[p[2]] = "pending"}}

UnitToken(u) == IF u[2] = 0 THEN ops[u[1]].token ELSE ops[u[1]].sent[u[2] - 1]

\* C5: no two operations that are pending at the same time hold the same token.
C5_PendingTokensDistinct ==
  \A u1, u2 \in PendingUnits : u1 # u2 => UnitToken(u1) # UnitToken(u2)

\* the streaming query's progress is fair when the consumer keeps pulling and
\* every worker's promise settles
FairStream ==
  /\ SpecStream
  /\ WF_vars(\E s \in 1..Len(ops) : SqlDispatch(s))
  /\ WF_vars(\E s \in 1..Len(ops) : ConsumerNext(s))
  /\ \A w \in WorkerIds :
       WF_vars(\E s \in 1..Len(ops), outcome \in {"fulfilled", "rejected"},
                  n \in 0..MaxBatches : WorkerSettles(s, w, outcome, n))

\* the same, where only the promises of killed workers are sure to settle
KillFairStream ==
  /\ SpecStream
  /\ WF_vars(\E s \in 1..Len(ops) : SqlDispatch(s))
  /\ WF_vars(\E s \in 1..Len(ops) : ConsumerNext(s))
  /\ \A w \in WorkerIds :
       WF_vars(w \in killed /\ \E s \in 1..Len(ops), outcome \in {"fulfilled", "rejected"},
                  n \in 0..MaxBatches : WorkerSettles(s, w, outcome, n))

\* the consumer keeps pulling; no worker is sure to answer
PullFairStream ==
  /\ SpecStream
  /\ WF_vars(\E s \in 1..Len(ops) : SqlDispatch(s))
  /\ WF_vars(\E s \in 1..Len(ops) : ConsumerNext(s))

\* ------------------------------------------------------------------ the merge loop: C6 .. C10
SqlOps == {s \in 1..Len(ops) : ops[s].kind = "sql"}

\* x's promise settled before y's
ArrivedBefore(o, x, y) ==
  /\ x \in Range(o.arrived)
  /\ y \in Range(o.arrived) => IndexOf(o.arrived, x) < IndexOf(o.arrived, y)

\* the places of out where a batch of a is followed, later, by a batch of b
YieldedBefore(o) ==
  {<<o.out[p][1], o.out[q][1]>> :
     <<p, q>> \in {pq \in (1..Len(o.out)) \X (1..Len(o.out)) :
                     pq[1] < pq[2] /\ o.out[pq[1]][1] # o.out[pq[2]][1]}}

BatchesOut(o, w) == {o.out[p][2] : p \in {q \in 1..Len(o.out) : o.out[q][1] = w}}

\* C7: every worker's result is consumed exactly once: a worker leaves the
\* pending set exactly when its result is taken, no batch is yielded twice, and
\* once the stream is done every batch of every worker has been yielded.
C7_EachBatchExactlyOnce ==
  \A s \in SqlOps :
    LET o == ops[s]
    IN  /\ \A p, q \in 1..Len(o.out) : p # q => o.out[p] # o.out[q]
        /\ \A w \in Range(o.promises) : BatchesOut(o, w) = {}
        /\ \A w \in Range(o.order) \ Range(o.promises) :
             /\ o.res[w] = "fulfilled"
             /\ BatchesOut(o, w) =
                  1..(IF o.cur # <<>> /\ o.cur[1] = w THEN o.cur[2] ELSE o.nb[w])
        /\ o.pc = "done" =>
             /\ Range(o.out) = {wk \in Range(o.order) \X (1..MaxBatches) : wk[2] <= o.nb[wk[1]]}
             /\ \A w \in Range(o.order) : o.res[w] = "fulfilled"

C7_Witness ==
  \E s \in SqlOps :
    /\ ops[s].pc = "done"
    /\ Len(ops[s].order) = MaxWorkers
    /\ \A w \in Range(ops[s].order) : ops[s].nb[w] >= 1
    /\ ops[s].out[1][1] # ops[s].order[1]

Ended(s) == Len(ops) >= s /\ ops[s].pc \in {"done", "failed"}

\* C8: when every worker's result settles and the consumer keeps pulling, the
\* stream ends, and it ends in an error only if a worker's result rejected; the
\* pending set loses one promise per round, and the generator is done only
\* with an empty pending set, after one round per worker.
C8_StreamCompletes ==
  /\ (Len(ops) >= 1) ~> Ended(1)
  /\ [](\A s \in SqlOps :
          LET o == ops[s]
          IN  /\ o.pc = "failed" => \E w \in Range(o.order) : o.res[w] = "rejected"
              /\ o.pc # "explain" => o.rounds + Len(o.promises) = Len(o.order)
              /\ o.pc = "done" => Len(o.promises) = 0 /\ o.rounds = Len(o.order)
              /\ (Len(o.promises) = 0 /\ o.pc \notin {"explain", "yielded"}) => o.pc = "done")

C8_Witness ==
  \E s \in SqlOps :
    /\ ops[s].pc = "done"
    /\ ops[s].rounds = MaxWorkers
    /\ Len(ops[s].out) >= MaxWorkers

HasSentinel(plan) == \E i \in 1..Len(plan) : plan[i] = "LogicalValues(tuples=[[]])"

\* C9: a query whose plan holds the empty-relation sentinel yields no batch and
\* reaches no worker.
C9_EmptyPlanSkipsWorkers ==
  \A s \in SqlOps :
    HasSentinel(ops[s].plan) =>
      /\ ops[s].out = <<>>
      /\ \A w \in WorkerIds : ops[s].calls[w] = 0 /\ ops[s].res[w] = "none"
      /\ ops[s].token = NoToken
      /\ ops[s].pc \in {"explain", "done"}

C9_Witness ==
  \E s \in SqlOps :
    /\ HasSentinel(ops[s].plan)
    /\ ops[s].pc = "done"
    /\ Len(workers) = MaxWorkers

\* a streaming query is draining: dispatched and not ended
Draining(s) == Len(ops) >= s /\ ops[s].kind = "sql" /\ ops[s].pc \in {"await", "yielded"}

IsPrefix(a, b) == Len(a) <= Len(b) /\ SubSeq(b, 1, Len(a)) = a

\* some promise still in the loop's array is rejected
RejectionWaiting(s) ==
  /\ Len(ops) >= s
  /\ \E w \in Range(ops[s].promises) : ops[s].res[w] = "rejected"

Failed(s) == Len(ops) >= s /\ ops[s].pc = "failed"

\* C11: a rejected sql result ends the stream with an error when the consumer
\* keeps pulling, and never lets it end normally; the batches yielded before
\* stay yielded (the output only grows), and nothing is yielded after the
\* error.
C11_RejectionSurfaces ==
  /\ [](\A s \in SqlOps :
          ops[s].pc = "done" => \A w \in Range(ops[s].order) : ops[s].res[w] # "rejected")
  /\ [][\A s \in SqlOps :
          /\ IsPrefix(ops[s].out, ops'[s].out)
          /\ ops[s].pc = "failed" => (ops'[s].pc = "failed" /\ ops'[s].out = ops[s].out)]_vars
  /\ RejectionWaiting(1) ~> Failed(1)

\* the stream failed after batches of another worker were yielded
C11_Witness ==
  \E s \in SqlOps :
    /\ ops[s].pc = "failed"
    /\ \E w \in Range(ops[s].order) : ops[s].res[w] = "rejected" /\ ops[s].nb[w] = 0
    /\ Len(ops[s].out) >= 2
    /\ \E w \in Range(ops[s].order) : ops[s].res[w] = "pending"

\* ------------------------------------------------------------------ table fan-out: C12
\* the calls of createDataFrameTable, create<CSV|Parquet|ORC>Table and dropTable
FanoutOps == {s \in 1..Len(ops) : ops[s].kind \in {"dfTable", "fileTable", "drop"}}

Settled(s) == ops[s].pc \in {"done", "failed"}

\* C12: a table fan-out settles only once every worker's call has settled, and
\* it fails exactly when some worker's call failed.
C12_FanoutWaitsForAll ==
  \A s \in FanoutOps :
    Settled(s) =>
      /\ \A w \in Range(ops[s].order) : ops[s].res[w] # "pending"
      /\ ops[s].pc = "failed" <=> \E w \in Range(ops[s].order) : ops[s].res[w] = "rejected"

\* ------------------------------------------------------------------ no rollback: C13
\* the table fan-outs in which w's call fulfils in this step
FulfilsNow(w) ==
  {s \in FanoutOps : ops[s].res[w] = "pending" /\ ops'[s].res[w] = "fulfilled"}

\* C13: a failed table fan-out is not rolled back: no worker is called a second
\* time for the operation; a worker's registration changes only in the step its
\* own call succeeds (then the table is registered after a creation and gone
\* after a drop), so a rejected call and the failure of the whole operation
\* leave every worker as it is.
C13_NoRollback ==
  /\ [](\A s \in FanoutOps : \A w \in WorkerIds :
          ops[s].calls[w] = (IF w \in Range(ops[s].order) THEN 1 ELSE 0))
  /\ [](Len(ops) = 1 /\ ops[1].kind \in {"dfTable", "fileTable"}
          => registered = {w \in Range(ops[1].order) : ops[1].res[w] = "fulfilled"})
  /\ [][\A w \in WorkerIds :
          IF FulfilsNow(w) = {}
          THEN w \in registered' <=> w \in registered
          ELSE \A s \in FulfilsNow(w) : w \in registered' <=> ops[s].kind # "drop"]_vars

\* a creation succeeded everywhere, then a drop failed on one worker after it
\* had succeeded on the other: the table is gone from the one and still on the
\* other
C13_Witness ==
  /\ Len(ops) = 2
  /\ ops[1].kind = "fileTable" /\ ops[1].pc = "done"
  /\ ops[2].kind = "drop" /\ ops[2].pc = "failed"
  /\ \E w1, w2 \in Range(ops[2].order) :
       /\ ops[2].res[w1] = "fulfilled" /\ w1 \notin registered
       /\ ops[2].res[w2] = "rejected" /\ w2 \in registered

\* ------------------------------------------------------------------ transfers: C14
\* the k-th call of the operation tells a worker to pull a reference
IsPull(o, k) == o.events[k].ev = "createDataFrameTable"

\* an earlier channel call of the operation registered a frame under the
\* reference of the k-th call, for that worker
RegisteredBefore(o, k) ==
  \E j \in 1..(k - 1) :
    /\ o.events[j].ev \in {"send", "broadcast"}
    /\ o.events[j].ref = o.events[k].ref
    /\ o.events[j].payload # NoFrame
    /\ o.events[j].ev = "send" => o.events[j].worker = o.events[k].worker

\* C14: whenever a worker is told to create a table from a reference, the
\* broadcast or send that registers a frame under that reference has returned
\* before.
C14_TransferBeforePull ==
  \A s \in FanoutOps :
    \A k \in 1..Len(ops[s].events) : IsPull(ops[s], k) => RegisteredBefore(ops[s], k)

\* a file table created with two workers left without paths
C14_Witness ==
  \E s \in FanoutOps :
    /\ ops[s].kind = "fileTable"
    /\ Cardinality({k \in 1..Len(ops[s].events) : IsPull(ops[s], k)}) >= 2
    /\ \E k \in 1..Len(ops[s].events) : ops[s].events[k].ev = "createFileTable"
    /\ ops[s].pc = "done"

\* ------------------------------------------------------------------ no worker skipped: C15
\* the table-creation calls the operation made to w
CreationCalls(o, w) ==
  {k \in 1..Len(o.events) :
     /\ o.events[k].ev \in {"createFileTable", "createDataFrameTable"}
     /\ o.events[k].worker = w}

\* a zero-row frame was sent to w's id under the reference
ZeroRowsSentTo(o, w, ref) ==
  \E j \in 1..Len(o.events) :
    /\ o.events[j].ev = "send"
    /\ o.events[j].worker = w
    /\ o.events[j].ref = ref
    /\ o.events[j].payload.rows = 0

\* C15: a file-table creation makes exactly one creation call to every worker
\* of the cluster and none to anyone else: the file-based call with the
\* worker's paths when it has some, otherwise createDataFrameTable for a
\* zero-row frame sent to that worker's id.
C15_NoWorkerSkipped ==
  \A s \in FileOps :
    LET o   == ops[s]
        rev == Reverse(o.order)
    IN  /\ \A w \in WorkerIds \ Range(o.order) : CreationCalls(o, w) = {}
        /\ \A i \in 1..Len(rev) :
             /\ Cardinality(CreationCalls(o, rev[i])) = 1
             /\ \A k \in CreationCalls(o, rev[i]) :
                  IF Len(o.chunks[i]) > 0
                  THEN /\ o.events[k].ev = "createFileTable"
                       /\ o.events[k].paths = o.chunks[i]
                  ELSE /\ o.events[k].ev = "createDataFrameTable"
                       /\ ZeroRowsSentTo(o, rev[i], o.events[k].ref)

\* one path over three workers: one file-based call, two empty tables
C15_Witness ==
  \E s \in FileOps :
    /\ Len(ops[s].order) = 3
    /\ Len(ops[s].filePath) = 1
    /\ Cardinality({k \in 1..Len(ops[s].events) : ops[s].events[k].ev = "send"}) = 2
    /\ \A w \in Range(ops[s].order) : ops[s].calls[w] = 1

\* ------------------------------------------------------------------ the empty table's schema: C16
\* the columns, in order, of a schema as parseSchema returns it
ColumnsOf(parsed) ==
  [i \in 1..Len(parsed.names) |-> <<parsed.names[i], ArrowToCUDFType(parsed.types[i])>>]

\* the frames the operation sent to workers without paths
SentFrames(o) == {o.events[k].payload : k \in {j \in 1..Len(o.events) : o.events[j].ev = "send"}}

\* C16: the zero-row table sent to a worker without paths has the column names
\* and types, in order, that parseSchema returns for the whole list of paths
\* given.
C16_EmptyTableHasParsedSchema ==
  \A s \in FileOps :
    LET o == ops[s]
    IN  Len(o.filePath) >= 1 =>
          \A df \in SentFrames(o) :
            /\ df.rows = 0
            /\ df.columns = ColumnsOf(ParseSchema(o.filePath, o.schema))

\* ------------------------------------------------------------------ kill: C17
\* C17: kill() is idempotent: before the first call no worker has been killed;
\* from the first call on the worker list is empty and every worker of the
\* cluster has had its kill() called exactly once; a step taken with the list
\* empty (a later kill() among them) leaves the list, the killed workers and
\* the number of kill() calls as they are.
C17_KillIdempotent ==
  /\ [](IF killed = {}
        THEN workers # <<>> /\ \A w \in WorkerIds : killCalls[w] = 0
        ELSE /\ workers = <<>>
             /\ \A w \in WorkerIds : killCalls[w] = (IF w \in killed THEN 1 ELSE 0))
  /\ [][workers = <<>> =>
          (workers' = <<>> /\ killed' = killed /\ killCalls' = killCalls)]_vars

\* a cluster of three workers after kill(), and a table operation issued after it
C17_Witness ==
  /\ workers = <<>>
  /\ Cardinality(killed) = 3
  /\ \A w \in killed : killCalls[w] = 1
  /\ Len(ops) = 1 /\ ops[1].order = <<>>

\* ------------------------------------------------------------------ after kill: C18
\* the operation reached its fan-out after kill(): it ran over no worker
IssuedAfterKill(s) ==
  /\ ops[s].order = <<>>
  /\ ops[s].kind = "sql" => ops[s].token # NoToken

\* C18: an operation issued through the cluster after kill() fails; it never
\* completes successfully.
C18_FailsAfterKill ==
  \A s \in 1..Len(ops) : IssuedAfterKill(s) => ops[s].pc # "done"

\* ------------------------------------------------------------------ worker ids: C19
\* C19: the ids of a cluster's workers are pairwise distinct and are exactly
\* b, b+1, ..., b+n-1 for the cluster's id b and its n workers; the in-process
\* worker, the last of the list, is the one with id b.
C19_WorkerIdsUnique ==
  LET n == Len(workers)
  IN  n >= 1 =>
        /\ \A i, j \in 1..n : i # j => workers[i] # workers[j]
        /\ Range(workers) = localId..(localId + n - 1)
        /\ workers[n] = localId
        /\ \A s \in 1..Len(ops) : ops[s].order = workers

\* a cluster of three workers with id 1, after it fanned a table operation out
C19_Witness ==
  /\ localId = 1
  /\ workers = <<3, 2, 1>>
  /\ Len(ops) = 1 /\ ops[1].order = workers /\ ops[1].pc = "done"

\* ------------------------------------------------------------------ no head-of-line blocking: C20
\* the workers whose result resolved and whose batches are not all yielded yet
Unyielded(s) ==
  {w \in Range(ops[s].order) :
     /\ ops[s].res[w] = "fulfilled"
     /\ \E k \in 1..ops[s].nb[w] : <<w, k>> \notin Range(ops[s].out)}

\* C20 as stated: the batches of every worker whose result resolved are yielded
\* in the end, whatever the other workers do; so a stream that has ended with
\* an error, and yields nothing more, has yielded them all.
C20_ResolvedBatchesAlwaysYielded ==
  \A s \in SqlOps : ops[s].pc = "failed" => Unyielded(s) = {}

\* C20, amended: when the consumer keeps pulling, the batches of every worker
\* whose result has resolved are eventually yielded, even if another worker's
\* result never resolves, unless the stream ends first with a worker's error.
C20_ResolvedBatchesYieldedUnlessError ==
  (Len(ops) >= 1 /\ Unyielded(1) # {}) ~> (Failed(1) \/ (Len(ops) >= 1 /\ Unyielded(1) = {}))

\* the loop waits for a worker that has not answered, after it yielded the two
\* batches of a worker that answered later in the list
C20_Witness ==
  \E s \in SqlOps :
    /\ ops[s].pc = "await"
    /\ Len(ops[s].promises) >= 1
    /\ ops[s].res[ops[s].promises[1]] = "pending"
    /\ Len(ops[s].out) >= 2
    /\ Unyielded(s) = {}

\* ------------------------------------------------------------------ concurrent fan-out: C21
\* the operations that fan one call out to every worker and have done so
FannedOut(o) ==
  \/ o.kind \in {"drop", "dfTable", "context"}
  \/ o.kind = "sql" /\ o.token # NoToken

\* the Worker calls of the operation, in the order made
WorkerCalls(o) == SelectSeq(o.events, LAMBDA e : e.ev \in CallKinds)

\* operation s made its fan-out in this step
DispatchedNow(s) ==
  /\ s \in 1..Len(ops')
  /\ FannedOut(ops'[s])
  /\ s <= Len(ops) => ops[s].pc = "explain"

\* C21: dropTable, createDataFrameTable, _createContexts and a non-empty sql
\* call each worker of the cluster exactly once, and all the calls are made in
\* the step that reaches the wait: whenever the operation waits, no worker of
\* the cluster is still uncalled, and right after the fan-out every result is
\* still pending.
C21_FanoutConcurrent ==
  /\ [](\A s \in 1..Len(ops) :
          FannedOut(ops[s]) =>
            /\ \A w \in WorkerIds :
                 ops[s].calls[w] = (IF w \in Range(ops[s].order) THEN 1 ELSE 0)
            /\ [i \in 1..Len(WorkerCalls(ops[s])) |-> WorkerCalls(ops[s])[i].worker]
                 = ops[s].order)
  /\ [][\A s \in 1..Len(ops') :
          DispatchedNow(s) =>
            /\ ops'[s].order = workers
            /\ \A w \in Range(workers) : ops'[s].res[w] = "pending"]_vars

\* a query waits for three workers, all called, none answered
C21_Witness ==
  \E s \in SqlOps :
    /\ ops[s].pc = "await"
    /\ Len(ops[s].order) = 3
    /\ \A w \in Range(ops[s].order) : ops[s].calls[w] = 1 /\ ops[s].res[w] = "pending"

\* ------------------------------------------------------------------ fromArrow: C22
\* C22: the frame fromArrow returns has one column per field of the table,
\* named by the field and in the fields' order, and column i holds the values
\* of the table's i-th column in row order, child columns included, wherever
\* the buffer is.
C22_FromArrowPreservesTable ==
  (call.fn = "fromArrow" /\ call.returned) =>
    LET read == TableFromArrow(call.args)
        cols == call.result.columns
    IN  /\ Len(cols) = Len(read.fields)
        /\ \A i \in 1..Len(cols) :
             /\ cols[i][1] = read.fields[i].name
             /\ cols[i][2] = ColToSeries(read.fields[i], read.table[i])

\* ------------------------------------------------------------------ broadcast references: C23
\* the worker of `order` with the k-th smallest id
KthSmallest(order, k) ==
  CHOOSE w \in Range(order) : Cardinality({v \in Range(order) : v <= w}) = k

\* the references broadcast returned, in the order it returned them
BroadcastRefs(o) ==
  LET bs == SelectSeq(o.events, LAMBDA e : e.ev = "broadcast")
  IN  [k \in 1..Len(bs) |-> bs[k].ref]

\* the references given to w
RefsGivenTo(o, w) ==
  {o.events[k].ref : k \in {j \in 1..Len(o.events) :
                              IsPull(o, j) /\ o.events[j].worker = w}}

DataFrameTableOps == {s \in 1..Len(ops) : ops[s].kind = "dfTable"}

\* C23: createDataFrameTable advances the counter by the number of workers and
\* broadcasts with the value the counter had before; the worker with the k-th
\* smallest id is given the k-th reference broadcast returned, and nothing
\* else, so no reference goes to two workers.
C23_OwnBroadcastReference ==
  /\ [][\A s \in 1..Len(ops') :
          (s > Len(ops) /\ ops'[s].kind = "dfTable") =>
            /\ ctxToken' = ctxToken + Len(workers)
            /\ ops'[s].token = ctxToken
            /\ \A k \in 1..Len(ops'[s].events) :
                 ops'[s].events[k].ev = "broadcast" => ops'[s].events[k].token = ctxToken]_vars
  /\ [](\A s \in DataFrameTableOps :
          LET o == ops[s]
          IN  /\ Len(BroadcastRefs(o)) = Len(o.order)
              /\ \A k \in 1..Len(o.order) :
                   RefsGivenTo(o, KthSmallest(o.order, k)) = {BroadcastRefs(o)[k]}
              /\ \A w1, w2 \in Range(o.order) :
                   w1 # w2 => RefsGivenTo(o, w1) \cap RefsGivenTo(o, w2) = {})

\* a frame was broadcast to the three workers 1, 2, 3 with token 0
C23_Witness ==
  \E s \in DataFrameTableOps :
    /\ ops[s].order = <<3, 2, 1>>
    /\ ops[s].token = 0 /\ ctxToken = 3
    /\ RefsGivenTo(ops[s], 1) = {<<0, 1>>}
    /\ RefsGivenTo(ops[s], 3) = {<<0, 3>>}

\* ------------------------------------------------------------------ topology: C24
ContextOps == {s \in 1..Len(ops) : ops[s].kind = "context"}

\* the workersUcpInfo lists given to the workers
InfosGiven(o) ==
  {o.events[k].info : k \in {j \in 1..Len(o.events) : o.events[j].ev = "createContext"}}

\* C24: every worker's createContext gets the same workersUcpInfo: one entry
\* per worker, in ascending id order, each with port = base port + id, so the
\* ports are pairwise distinct.
C24_SameTopologySnapshot ==
  \A s \in ContextOps :
    LET o == ops[s]
        n == Len(o.order)
    IN  /\ \A w \in Range(o.order) : o.calls[w] = 1
        /\ n >= 1 => Cardinality(InfosGiven(o)) = 1
        /\ \A info \in InfosGiven(o) :
             /\ Len(info) = n
             /\ {info[i].id : i \in 1..n} = Range(o.order)
             /\ \A i \in 1..(n - 1) : info[i].id < info[i + 1].id
             /\ \E port \in Ports : \A i \in 1..n : info[i].port = port + info[i].id
             /\ \A i, j \in 1..n : i # j => info[i].port # info[j].port

\* the contexts of the workers 1, 2, 3 were created with the ports 4001..4003
C24_Witness ==
  \E s \in ContextOps :
    /\ ops[s].order = <<3, 2, 1>>
    /\ ops[s].pc = "done"
    /\ \E info \in InfosGiven(ops[s]) :
         [i \in 1..3 |-> info[i].port] = <<4001, 4002, 4003>>

\* ------------------------------------------------------------------ who gets which chunk: C26
\* the paths the operation gave to w (none with the empty-table fallback)
AssignedTo(o, w) ==
  LET ks == {k \in 1..Len(o.events) :
               o.events[k].ev = "createFileTable" /\ o.events[k].worker = w}
  IN  IF ks = {} THEN <<>> ELSE o.events[CHOOSE k \in ks : TRUE].paths

\* the workers that got the empty-table fallback
Fallback(o) ==
  {w \in Range(o.order) :
     \E k \in 1..Len(o.events) :
       o.events[k].ev = "createDataFrameTable" /\ o.events[k].worker = w}

\* C26: chunk k goes to the worker with the k-th smallest id; the local worker
\* has the lowest id and gets the first chunk, which no other chunk exceeds in
\* size and which is non-empty when a path is given; the workers with the
\* empty-table fallback are exactly those without paths, and their ids are
\* above the ids of all the others.
C26_ChunksByAscendingId ==
  \A s \in FileOps :
    LET o == ops[s]
        n == Len(o.order)
    IN  /\ \A k \in 1..n : AssignedTo(o, KthSmallest(o.order, k)) = o.chunks[k]
        /\ KthSmallest(o.order, 1) = localId
        /\ \A k \in 1..n : Len(AssignedTo(o, localId)) >= Len(o.chunks[k])
        /\ Len(o.filePath) >= 1 => AssignedTo(o, localId) # <<>>
        /\ Fallback(o) = {w \in Range(o.order) : AssignedTo(o, w) = <<>>}
        /\ \A w \in Fallback(o), v \in Range(o.order) \ Fallback(o) : v < w

\* two paths over the workers 1, 2, 3: one each for 1 and 2, the fallback for 3
C26_Witness ==
  \E s \in FileOps :
    /\ ops[s].order = <<3, 2, 1>>
    /\ localId = 1
    /\ AssignedTo(ops[s], 1) = <<1>>
    /\ AssignedTo(ops[s], 2) = <<2>>
    /\ Fallback(ops[s]) = {3}

\* ------------------------------------------------------------------ the caller's array: C27
\* the file-table creations given the array of an earlier one
AgainOps == {t \in 1..Len(ops) : ops[t].kind = "fileTable" /\ ops[t].from # 0}

\* C27: a file-table creation run with at least one worker leaves the array it
\* was given empty; a second creation given the same array then has no path
\* for any worker, and every worker takes the empty-table fallback.
C27_PathArrayConsumed ==
  /\ \A s \in FileOps : Len(ops[s].order) >= 1 => ops[s].rest = <<>>
  /\ \A t \in AgainOps :
       LET first == ops[ops[t].from]
       IN  /\ ops[t].filePath = first.rest
           /\ Len(first.order) >= 1 =>
                /\ ops[t].filePath = <<>>
                /\ \A k \in 1..Len(ops[t].chunks) : ops[t].chunks[k] = <<>>
                /\ Fallback(ops[t]) = Range(ops[t].order)

\* two workers got a path each; the same array given again: two fallbacks
C27_Witness ==
  \E t \in AgainOps :
    /\ Len(ops[ops[t].from].filePath) = 2
    /\ Len(ops[ops[t].from].order) = 2
    /\ Fallback(ops[ops[t].from]) = {}
    /\ Len(ops[t].order) = 2
    /\ Fallback(ops[t]) = Range(ops[t].order)

\* ------------------------------------------------------------------ the token counter's frame: C28
\* the step appends an operation of one of these kinds
Appends(kinds) ==
  /\ Len(ops') = Len(ops) + 1
  /\ ops'[Len(ops')].kind \in kinds

\* the step resumes an sql generator after explain, with this early-exit answer
Resumes(early) ==
  /\ Len(ops') = Len(ops)
  /\ \E s \in 1..Len(ops) :
       /\ ops[s].kind = "sql" /\ ops[s].pc = "explain" /\ ops'[s].pc # "explain"
       /\ IsStaticallyEmpty(ops[s].plan) = early

\* the step is a kill() that had workers to kill
Kills == workers # <<>> /\ workers' = <<>>

\* C28: the token counter never decreases; the early exit of sql on a
\* statically empty plan, dropTable, explain, listTables, describeTable and
\* kill leave it unchanged; a non-empty sql call adds exactly 1; a file-table
\* creation adds exactly the number of workers with an empty assignment; and
\* no other step but createDataFrameTable changes it.
C28_TokenFrame ==
  [][ /\ ctxToken' >= ctxToken
      /\ Resumes(TRUE) => ctxToken' = ctxToken
      /\ Appends({"sql", "drop"} \cup ReadOnlyKinds) => ctxToken' = ctxToken
      /\ Kills => ctxToken' = ctxToken
      /\ Resumes(FALSE) => ctxToken' = ctxToken + 1
      /\ Appends({"fileTable"}) =>
           ctxToken' = ctxToken + Cardinality(Fallback(ops'[Len(ops')]))
      /\ ~(Resumes(FALSE) \/ Appends({"fileTable", "dfTable"})) => ctxToken' = ctxToken
    ]_vars

\* a file-table creation on a cluster with a base id left two of three
\* workers without a path and took two tokens, and a later kill took none
C28_Witness ==
  /\ Len(ops) = 1 /\ ops[1].kind = "fileTable"
  /\ Len(ops[1].order) = 3
  /\ Cardinality(Fallback(ops[1])) = 2
  /\ ctxToken = 2
  /\ workers = <<>>

\* ------------------------------------------------------------------ nansToNulls: C30
\* C30: for every list of the frame's column names, a strict subset and a
\* reordered one included, nansToNulls returns a frame with the original's
\* column names in the original's order, each column made from the original
\* column of the same name, with its NaNs turned to nulls if it is a float
\* column.
C30_NansToNullsKeepsColumns ==
  (call.fn = "nansToNulls" /\ call.returned) =>
    LET df  == call.args.df
        out == call.result
    IN  /\ ~out.threw
        /\ Names(out.value) = Names(df)
        /\ \A name \in Range(Names(df)) :
             /\ Get(out.value, name).data = name
             /\ Get(out.value, name).type = Get(df, name).type
             /\ Get(out.value, name).nansToNulls = (Get(df, name).type \in FloatTypes)

\* what does hold: a call without a list, or with all the names in the frame's
\* order, returns the frame the claim describes
C30_HoldsForAllNamesInOrder ==
  (call.fn = "nansToNulls" /\ call.returned
     /\ call.args.subset \in {Undefined, Names(call.args.df)}) =>
    LET df  == call.args.df
        out == call.result
    IN  /\ ~out.threw
        /\ Names(out.value) = Names(df)
        /\ \A name \in Range(Names(df)) :
             /\ Get(out.value, name).data = name
             /\ Get(out.value, name).type = Get(df, name).type
             /\ Get(out.value, name).nansToNulls = (Get(df, name).type \in FloatTypes)

\* a strict subset makes the call throw
C30_StrictSubsetThrows ==
  (call.fn = "nansToNulls" /\ call.returned /\ call.args.subset # Undefined
     /\ Len(call.args.subset) < Len(call.args.df.columns)) =>
    call.result.threw

\* ------------------------------------------------------------------ join column names: C25
\* the columns of the two sides as mergeResults gets them
MergedLhs(join) == join.lhs

MergedRhs(join) == Drop(join.rhs, join.on)

\* the result names of a side's columns
LhsName(join, name) == NewName(name, join.on, Names(MergedRhs(join)), join.lsuffix)

RhsName(join, name) == NewName(name, join.on, Names(MergedLhs(join)), join.rsuffix)

\* the columns of a side that come out under `name`
LhsUnder(join, name) == {n \in Range(Names(MergedLhs(join))) : LhsName(join, n) = name}

RhsUnder(join, name) == {n \in Range(Names(MergedRhs(join))) : RhsName(join, n) = name}

\* C25: in the result of a left join a key column keeps its name; a column
\* that is not a key and whose name is also on the other side is named with its
\* own side's suffix appended, and any other column keeps its name; where both
\* suffixes are empty and a name that is not a key is on both sides the result
\* holds the left-hand column under it; under any other name that a left-hand
\* and a right-hand column both come out as, the result holds the right-hand
\* column.
C25_JoinColumnNames ==
  (call.fn = "left" /\ call.returned) =>
    LET join  == NewJoin(call.args)
        lhs   == MergedLhs(join)
        rhs   == MergedRhs(join)
        out   == call.result
        plain == join.lsuffix = "" /\ join.rsuffix = ""
    IN  /\ \A name \in Range(join.on) : name \in Range(Names(out))
        /\ \A name \in Range(Names(lhs)) \ Range(join.on) :
             IF name \in Range(Names(rhs))
             THEN name \o join.lsuffix \in Range(Names(out))
             ELSE name \in Range(Names(out))
        /\ \A name \in Range(Names(rhs)) :
             IF name \in Range(Names(lhs))
             THEN name \o join.rsuffix \in Range(Names(out))
             ELSE name \in Range(Names(out))
        /\ \A name \in Range(Names(out)) :
             LET col == Get(out, name).of
             IN  /\ LhsUnder(join, name) \cup RhsUnder(join, name) # {}
                 /\ IF LhsUnder(join, name) # {} /\ RhsUnder(join, name) # {}
                    THEN IF plain
                         THEN col = Get(join.lhs, name)
                         ELSE col.side = "rhs" /\ col.data \in RhsUnder(join, name)
                    ELSE IF RhsUnder(join, name) # {}
                         THEN col.side = "rhs" /\ col.data \in RhsUnder(join, name)
                         ELSE col.side = "lhs" /\ col.data \in LhsUnder(join, name)

\* a left join with rsuffix "_r" of a left side with x and x_r and a right
\* side with x: the right side's x comes out as x_r and takes the place of the
\* left side's x_r
C25_Witness ==
  /\ call.fn = "left" /\ call.returned
  /\ NewJoin(call.args).lsuffix = "" /\ NewJoin(call.args).rsuffix = "_r"
  /\ {"x", "x_r"} \subseteq Range(Names(call.args.lhs))
  /\ Names(call.args.rhs) = <<Key, "x">>
  /\ Get(call.result, "x_r").of = Get(call.args.rhs, "x")
  /\ Get(call.result, "x").of = Get(call.args.lhs, "x")

\* ------------------------------------------------------------------ the right join: C29
\* C29: right() returns what left() returns for a Join built with lhs and rhs
\* swapped, the suffixes swapped, and the nullEquality and memoryResource of
\* the original join.
C29_RightMirrorsLeft ==
  (call.fn = "right" /\ call.returned) =>
    LET join == NewJoin(call.args)
    IN  call.result = Left(NewJoin([on             |-> join.on,
                                    lhs            |-> join.rhs,
                                    rhs            |-> join.lhs,
                                    lsuffix        |-> join.rsuffix,
                                    rsuffix        |-> join.lsuffix,
                                    nullEquality   |-> join.nullEquality,
                                    memoryResource |-> join.memoryResource]))

\* what does hold: the mirrored left join with the default options
C29_RightMirrorsLeftWithDefaults ==
  (call.fn = "right" /\ call.returned) =>
    LET join == NewJoin(call.args)
    IN  call.result = Left(NewJoin([on             |-> join.on,
                                    lhs            |-> join.rhs,
                                    rhs            |-> join.lhs,
                                    lsuffix        |-> join.rsuffix,
                                    rsuffix        |-> join.lsuffix,
                                    nullEquality   |-> TRUE,
                                    memoryResource |-> "undefined"]))

====
